---------------------------- MODULE Spec2Model ----------------------------
(***************************************************************************)
(* Model of the patch application engine (src/github_ops.py,               *)
(* apply_changes_locally and its helpers) and of the per-file sequencer    *)
(* in the request handler (src/app.py, chat).                              *)
(*                                                                         *)
(* A Python str is a sequence of one-character strings.  A change (a       *)
(* Python dict) is a TLA+ function whose DOMAIN is the set of keys that    *)
(* are present, so dict.get(key, default) is modelled literally.           *)
(***************************************************************************)
EXTENDS Integers, Sequences, FiniteSets, TLC

VARIABLES
    original_content,   \* apply_changes_locally: parameter original_content
    changes,            \* apply_changes_locally: parameter changes
    content,            \* apply_changes_locally: local content (the buffer)
    pos,                \* number of elements of changes the for loop has consumed
    printed,            \* the print() calls made so far, in order
    pc,                 \* "loop" while in the for loop, "returned" after return
    result,             \* the returned value
    store,              \* the remote repository: per path, whether it exists and its text
    chat_pc,            \* chat: where the handler is
    chat_changes,       \* chat: llm_response['changes']
    review_changes,     \* chat: review_response['changes']
    changes_by_file,    \* chat: the pass's groups, in insertion order
    file_idx,           \* chat: number of groups the pass's for loop has consumed
    execution_log,      \* chat: execution_log
    review_log,         \* chat: review_log
    remote,             \* the calls the two file loops made, in order
    response            \* chat: what the handler answers

engineVars == <<original_content, changes, content, pos, printed, pc, result>>

chatVars == <<store, chat_pc, chat_changes, review_changes, changes_by_file,
              file_idx, execution_log, review_log, remote, response>>

vars == <<engineVars, chatVars>>

-----------------------------------------------------------------------------
(* Python string primitives *)

Min(a, b) == IF a < b THEN a ELSE b

Max(a, b) == IF a > b THEN a ELSE b

\* s[:k] for k >= 0 (a slice end past the end of s is clamped)
SliceTo(s, k) == SubSeq(s, 1, Min(k, Len(s)))

\* s[k:] for k >= 0 (a slice start past the end of s gives '')
SliceFrom(s, k) == SubSeq(s, Min(k, Len(s)) + 1, Len(s))

\* s[lo:hi] for 0 <= lo, 0 <= hi
Slice(s, lo, hi) == SubSeq(s, Min(lo, Len(s)) + 1, Min(hi, Len(s)))

\* s.startswith(t) at 0-based offset i
MatchesAt(s, t, i) == /\ i + Len(t) <= Len(s)
                      /\ \A k \in 1..Len(t) : s[i + k] = t[k]

\* t in s
Contains(s, t) == \E i \in 0..Len(s) : MatchesAt(s, t, i)

\* s.find(t): the lowest 0-based offset where t occurs in s, or -1
StrFind(s, t) ==
    IF Contains(s, t)
    THEN CHOOSE i \in 0..Len(s) :
            /\ MatchesAt(s, t, i)
            /\ \A j \in 0..(i - 1) : ~MatchesAt(s, t, j)
    ELSE -1

\* s.replace(old, new) for a non-empty old: left to right, non-overlapping
RECURSIVE StrReplace(_, _, _)
StrReplace(s, old, new) ==
    IF Len(s) = 0 THEN <<>>
    ELSE IF MatchesAt(s, old, 0)
         THEN new \o StrReplace(SliceFrom(s, Len(old)), old, new)
         ELSE <<Head(s)>> \o StrReplace(Tail(s), old, new)

\* s.split('\n'): always at least one element
RECURSIVE SplitLines(_)
SplitLines(s) ==
    LET i == StrFind(s, <<"\n">>)
    IN  IF i = -1 THEN <<s>>
        ELSE <<SliceTo(s, i)>> \o SplitLines(SliceFrom(s, i + 1))

\* '\n'.join(lines)
RECURSIVE JoinLines(_)
JoinLines(lines) ==
    IF Len(lines) = 0 THEN <<>>
    ELSE IF Len(lines) = 1 THEN lines[1]
         ELSE lines[1] \o <<"\n">> \o JoinLines(Tail(lines))

\* the characters str.strip() removes
Whitespace == {" ", "\t", "\n", "\r"}

\* s.strip()
RECURSIVE Strip(_)
Strip(s) ==
    IF Len(s) = 0 THEN s
    ELSE IF s[1] \in Whitespace THEN Strip(Tail(s))
         ELSE IF s[Len(s)] \in Whitespace THEN Strip(SubSeq(s, 1, Len(s) - 1))
              ELSE s

\* dict.get(key, default)
Get(d, key, default) == IF key \in DOMAIN d THEN d[key] ELSE default

\* the value None where a str or an action name is expected
None == "None"

-----------------------------------------------------------------------------
(* src/github_ops.py: the helpers of apply_changes_locally *)

\* normalize_whitespace(text)
normalize_whitespace(text) ==
    StrReplace(StrReplace(text, <<"\r", "\n">>, <<"\n">>),
               <<"\t">>, <<" ", " ", " ", " ">>)

\* find_in_content(content, search_text): (index, True) or (None, False);
\* index -1 stands for None
find_in_content(buf, search_text) ==
    LET normalized_content == normalize_whitespace(buf)
        normalized_search  == normalize_whitespace(search_text)
        index              == StrFind(normalized_content, normalized_search)
    IN  IF index # -1 THEN [index |-> index, found |-> TRUE]
        ELSE [index |-> -1, found |-> FALSE]

\* default of the parameter n of find_similar_text
SuggestionLimit == 3

\* the loop of find_similar_text from line index i (1-based) with n
\* suggestions still allowed
RECURSIVE SimilarFrom(_, _, _, _, _)
SimilarFrom(lines, search_lines, first_search_line, i, n) ==
    IF i > Len(lines) \/ n <= 0 THEN <<>>
    ELSE IF Contains(lines[i], first_search_line)
         THEN LET start   == Max(0, i - 1)
                  end     == Min(Len(lines), (i - 1) + Len(search_lines))
                  context == JoinLines(Slice(lines, start, end))
              IN  <<context>> \o
                  SimilarFrom(lines, search_lines, first_search_line, i + 1, n - 1)
         ELSE SimilarFrom(lines, search_lines, first_search_line, i + 1, n)

\* find_similar_text(content, search_text, n)
find_similar_text(buf, search_text, n) ==
    LET lines             == SplitLines(buf)
        search_lines      == SplitLines(search_text)
        first_search_line == Strip(search_lines[1])
    IN  SimilarFrom(lines, search_lines, first_search_line, 1, Max(n, 1))

\* the length of the previews printed by the replace branch ([:100])
PreviewLen == 100

\* one print() call: the message and the text interpolated into it
Msg(text, arg) == [msg |-> text, arg |-> arg]

\* the start offset the three anchor branches compute for a found anchor:
\* the prefix of the normalized content before the match, measured in the
\* original content
ActualStart(buf, search_text) ==
    LET normalized_content == normalize_whitespace(buf)
        normalized_search  == normalize_whitespace(search_text)
        norm_index         == StrFind(normalized_content, normalized_search)
        before_normalized  == SliceTo(normalized_content, norm_index)
        before_original    == SliceTo(buf, Len(before_normalized))
    IN  Len(before_original)

-----------------------------------------------------------------------------
(* src/github_ops.py: the branches of the loop of apply_changes_locally.   *)
(* Each gives the buffer after the branch and the print() calls it made.   *)

Outcome(buf, prints) == [content |-> buf, printed |-> prints]

\* a write that keeps what the buffer held and adds its content to it
WriteBranchAppends(buf, change) ==
    Outcome(buf \o Get(change, "content", <<>>), <<>>)

\* action == 'write'
WriteBranch(buf, change) == Outcome(Get(change, "content", <<>>), <<>>)

\* a replace that rewrites every occurrence of the search text
ReplaceBranchAll(buf, change) ==
    LET search_text  == Get(change, "search", <<>>)
        replace_text == Get(change, "replace", <<>>)
    IN  IF search_text = <<>>
        THEN Outcome(buf,
                 <<Msg("Warning: Replace operation missing 'search' field", <<>>)>>)
        ELSE IF find_in_content(buf, search_text).found
             THEN Outcome(StrReplace(buf, search_text, replace_text), <<>>)
             ELSE Outcome(buf,
                      <<Msg("Warning: Could not find search text for replace operation", <<>>),
                        Msg("Searched for:", SliceTo(search_text, PreviewLen))>>)

\* action == 'replace'
ReplaceBranch(buf, change) ==
    LET search_text  == Get(change, "search", <<>>)
        replace_text == Get(change, "replace", <<>>)
    IN  IF search_text = <<>>
        THEN Outcome(buf,
                 <<Msg("Warning: Replace operation missing 'search' field", <<>>)>>)
        ELSE IF find_in_content(buf, search_text).found
             THEN LET actual_start == ActualStart(buf, search_text)
                      actual_end   == actual_start + Len(search_text)
                  IN  Outcome(SliceTo(buf, actual_start) \o replace_text
                                  \o SliceFrom(buf, actual_end), <<>>)
             ELSE LET suggestions == find_similar_text(buf, search_text, SuggestionLimit)
                  IN  Outcome(buf,
                          <<Msg("Warning: Could not find search text for replace operation", <<>>),
                            Msg("Searched for:", SliceTo(search_text, PreviewLen))>>
                          \o (IF suggestions # <<>>
                              THEN <<Msg("Similar code found:",
                                         SliceTo(suggestions[1], PreviewLen))>>
                              ELSE <<>>))

\* an erase that, given a line number and no search text, removes that line
EraseBranchByLine(buf, change) ==
    LET search_text == Get(change, "search", <<>>)
        lines       == SplitLines(buf)
    IN  IF search_text = <<>> /\ "line" \in DOMAIN change
        THEN IF change.line \in 1..Len(lines)
             THEN Outcome(JoinLines(SubSeq(lines, 1, change.line - 1)
                              \o SubSeq(lines, change.line + 1, Len(lines))), <<>>)
             ELSE Outcome(buf, <<>>)
        ELSE IF search_text = <<>>
        THEN Outcome(buf,
                 <<Msg("Warning: Erase operation missing 'search' field", <<>>)>>)
        ELSE IF find_in_content(buf, search_text).found
             THEN LET actual_start == ActualStart(buf, search_text)
                      actual_end   == actual_start + Len(search_text)
                  IN  Outcome(SliceTo(buf, actual_start) \o SliceFrom(buf, actual_end),
                              <<>>)
             ELSE Outcome(buf,
                      <<Msg("Warning: Could not find search text for erase operation", <<>>)>>)

\* action == 'erase'
EraseBranch(buf, change) ==
    LET search_text == Get(change, "search", <<>>)
    IN  IF search_text = <<>>
        THEN Outcome(buf,
                 <<Msg("Warning: Erase operation missing 'search' field", <<>>)>>)
        ELSE IF find_in_content(buf, search_text).found
             THEN LET actual_start == ActualStart(buf, search_text)
                      actual_end   == actual_start + Len(search_text)
                  IN  Outcome(SliceTo(buf, actual_start) \o SliceFrom(buf, actual_end),
                              <<>>)
             ELSE Outcome(buf,
                      <<Msg("Warning: Could not find search text for erase operation", <<>>)>>)

\* an insert that falls back to the end of the buffer when its anchor is
\* not found
InsertBranchAppendsWhenMissing(buf, change) ==
    LET search_text == Get(change, "search", <<>>)
        insert_text == Get(change, "insert", <<>>)
        position    == Get(change, "position", "after")
    IN  IF position = "start" THEN Outcome(insert_text \o buf, <<>>)
        ELSE IF position = "end" THEN Outcome(buf \o insert_text, <<>>)
        ELSE IF search_text = <<>>
        THEN Outcome(buf,
                 <<Msg("Warning: Insert operation missing 'search' anchor", <<>>)>>)
        ELSE IF find_in_content(buf, search_text).found
             THEN LET actual_start == ActualStart(buf, search_text)
                      actual_end   == actual_start + Len(search_text)
                  IN  IF position = "before"
                      THEN Outcome(SliceTo(buf, actual_start) \o insert_text
                                       \o SliceFrom(buf, actual_start), <<>>)
                      ELSE Outcome(SliceTo(buf, actual_end) \o insert_text
                                       \o SliceFrom(buf, actual_end), <<>>)
             ELSE Outcome(buf \o insert_text,
                      <<Msg("Warning: Could not find anchor text for insert operation", <<>>)>>)

\* an insert whose position 'after' splices at the start of the span, like
\* 'before'
InsertBranchAfterAtStart(buf, change) ==
    LET search_text == Get(change, "search", <<>>)
        insert_text == Get(change, "insert", <<>>)
        position    == Get(change, "position", "after")
    IN  IF position = "start" THEN Outcome(insert_text \o buf, <<>>)
        ELSE IF position = "end" THEN Outcome(buf \o insert_text, <<>>)
        ELSE IF search_text = <<>>
        THEN Outcome(buf,
                 <<Msg("Warning: Insert operation missing 'search' anchor", <<>>)>>)
        ELSE IF find_in_content(buf, search_text).found
             THEN LET actual_start == ActualStart(buf, search_text)
                  IN  Outcome(SliceTo(buf, actual_start) \o insert_text
                                  \o SliceFrom(buf, actual_start), <<>>)
             ELSE Outcome(buf,
                      <<Msg("Warning: Could not find anchor text for insert operation", <<>>)>>)

\* action == 'insert'
InsertBranch(buf, change) ==
    LET search_text == Get(change, "search", <<>>)
        insert_text == Get(change, "insert", <<>>)
        position    == Get(change, "position", "after")
    IN  IF position = "start" THEN Outcome(insert_text \o buf, <<>>)
        ELSE IF position = "end" THEN Outcome(buf \o insert_text, <<>>)
        ELSE IF search_text = <<>>
        THEN Outcome(buf,
                 <<Msg("Warning: Insert operation missing 'search' anchor", <<>>)>>)
        ELSE IF find_in_content(buf, search_text).found
             THEN LET actual_start == ActualStart(buf, search_text)
                      actual_end   == actual_start + Len(search_text)
                  IN  IF position = "before"
                      THEN Outcome(SliceTo(buf, actual_start) \o insert_text
                                       \o SliceFrom(buf, actual_start), <<>>)
                      ELSE Outcome(SliceTo(buf, actual_end) \o insert_text
                                       \o SliceFrom(buf, actual_end), <<>>)
             ELSE Outcome(buf,
                      <<Msg("Warning: Could not find anchor text for insert operation", <<>>)>>)

\* the actions the if/elif chain has a branch for
KnownActions == {"write", "delete_file", "replace", "erase", "insert"}

\* change.get('action')
ActionOf(change) == Get(change, "action", None)

\* one iteration of the loop for a change that is not a delete_file; an
\* action no branch matches falls through the chain: nothing happens
ApplyBranch(buf, change) ==
    LET action == ActionOf(change)
    IN  IF action = "write" THEN WriteBranch(buf, change)
        ELSE IF action = "replace" THEN ReplaceBranch(buf, change)
        ELSE IF action = "erase" THEN EraseBranch(buf, change)
        ELSE IF action = "insert" THEN InsertBranch(buf, change)
        ELSE Outcome(buf, <<>>)

\* the values apply_changes_locally returns
ReturnedNone == [kind |-> "None", value |-> <<>>]

ReturnedStr(buf) == [kind |-> "str", value |-> buf]

\* the loop of apply_changes_locally from the buffer buf over the changes
\* chs, having printed prints: what is returned and what has been printed
RECURSIVE ApplyLoop(_, _, _)
ApplyLoop(buf, chs, prints) ==
    IF chs = <<>> THEN [returned |-> ReturnedStr(buf), printed |-> prints]
    ELSE IF ActionOf(Head(chs)) = "delete_file"
         THEN [returned |-> ReturnedNone, printed |-> prints]
         ELSE LET o == ApplyBranch(buf, Head(chs))
              IN  ApplyLoop(o.content, Tail(chs), prints \o o.printed)

\* apply_changes_locally(original_content, changes) as a function
apply_changes_locally(orig, chs) == ApplyLoop(orig, chs, <<>>)

-----------------------------------------------------------------------------
(* apply_changes_locally as a state machine: one step per loop iteration *)

\* the longest list of changes handed to apply_changes_locally
MaxChanges == 3

\* the target file of the changes of one call (chat groups them by file)
EngineFile == "f.py"

\* the changes of the anchor mode, with and without their optional keys
AnchorChanges ==
    { [file |-> EngineFile, action |-> "write", content |-> <<"b", "a">>],
      [file |-> EngineFile, action |-> "write"],
      [file |-> EngineFile, action |-> "delete_file"],
      [file |-> EngineFile, action |-> "replace", search |-> <<"a">>,
       replace |-> <<"c", "c">>],
      [file |-> EngineFile, action |-> "replace", search |-> <<"b", "\n", "b">>,
       replace |-> <<"a">>],
      [file |-> EngineFile, action |-> "replace", replace |-> <<"b">>],
      [file |-> EngineFile, action |-> "erase", search |-> <<"a", "b">>],
      [file |-> EngineFile, action |-> "erase"],
      [file |-> EngineFile, action |-> "insert", search |-> <<"b">>,
       insert |-> <<"a">>, position |-> "before"],
      [file |-> EngineFile, action |-> "insert", search |-> <<"c">>,
       insert |-> <<"b">>],
      [file |-> EngineFile, action |-> "insert", insert |-> <<"a">>,
       position |-> "start"],
      [file |-> EngineFile, action |-> "insert", search |-> <<"z">>,
       insert |-> <<"b">>, position |-> "end"],
      [file |-> EngineFile, action |-> "insert", insert |-> <<"a">>],
      [file |-> EngineFile, action |-> "rename"],
      [file |-> EngineFile] }

\* the file contents the anchor mode starts from
AnchorContents ==
    { <<>>, <<"b", "a">>, <<"a", "b", "a">>, <<"b", "\n", "a", "b">>,
      <<"\t", "a", "b">> }

\* all lists of at most n elements of S
ListsUpTo(S, n) == UNION { [1..k -> S] : k \in 0..n }

\* no value returned yet
Pending == [kind |-> "pending", value |-> <<>>]

\* no request is being handled
ChatIdle ==
    /\ store = <<>>
    /\ chat_pc = "idle"
    /\ chat_changes = <<>>
    /\ review_changes = <<>>
    /\ changes_by_file = <<>>
    /\ file_idx = 0
    /\ execution_log = <<>>
    /\ review_log = <<>>
    /\ remote = <<>>
    /\ response = "idle"

\* the state after `content = original_content`
EngineInit(contents, chs) ==
    /\ ChatIdle
    /\ original_content \in contents
    /\ changes \in ListsUpTo(chs, MaxChanges)
    /\ content = original_content
    /\ pos = 0
    /\ printed = <<>>
    /\ pc = "loop"
    /\ result = Pending

\* the loop has a next element, whose action is a
AtChange(a) ==
    /\ pc = "loop"
    /\ pos < Len(changes)
    /\ ActionOf(changes[pos + 1]) = a

\* the loop variable of the iteration about to run
change == changes[pos + 1]

\* a branch that ran to its end: the buffer and the prints it leaves
Advance(o) ==
    /\ content' = o.content
    /\ printed' = printed \o o.printed
    /\ pos' = pos + 1
    /\ UNCHANGED <<original_content, changes, pc, result, chatVars>>

WriteStep == AtChange("write") /\ Advance(WriteBranch(content, change))

\* a delete_file that is passed over: the loop goes on
DeleteFileStepContinues ==
    /\ AtChange("delete_file")
    /\ Advance(Outcome(content, <<>>))

\* action == 'delete_file': return None
DeleteFileStep ==
    /\ AtChange("delete_file")
    /\ pc' = "returned"
    /\ result' = ReturnedNone
    /\ pos' = pos + 1
    /\ UNCHANGED <<original_content, changes, content, printed, chatVars>>

ReplaceStep == AtChange("replace") /\ Advance(ReplaceBranch(content, change))

\* an erase that looks its anchor up in the original content
EraseStepOnOriginal ==
    AtChange("erase") /\ Advance(EraseBranch(original_content, change))

EraseStep == AtChange("erase") /\ Advance(EraseBranch(content, change))

InsertStep == AtChange("insert") /\ Advance(InsertBranch(content, change))

\* an unknown action that ends the call with the buffer as it is
FallThroughReturns ==
    /\ pc = "loop"
    /\ pos < Len(changes)
    /\ ActionOf(change) \notin KnownActions
    /\ pc' = "returned"
    /\ result' = ReturnedStr(content)
    /\ pos' = pos + 1
    /\ UNCHANGED <<original_content, changes, content, printed, chatVars>>

\* no branch of the chain matches the action
FallThroughStep ==
    /\ pc = "loop"
    /\ pos < Len(changes)
    /\ ActionOf(change) \notin KnownActions
    /\ Advance(Outcome(content, <<>>))

\* the loop is over: return content
ReturnContent ==
    /\ pc = "loop"
    /\ pos = Len(changes)
    /\ pc' = "returned"
    /\ result' = ReturnedStr(content)
    /\ UNCHANGED <<original_content, changes, content, pos, printed, chatVars>>

EngineNext ==
    \/ WriteStep
    \/ DeleteFileStep
    \/ ReplaceStep
    \/ EraseStep
    \/ InsertStep
    \/ FallThroughStep
    \/ ReturnContent

Init == EngineInit(AnchorContents, AnchorChanges)

Next == EngineNext

Spec == Init /\ [][Next]_vars

-----------------------------------------------------------------------------
(* Vocabulary of the properties *)

\* the position of the first delete_file of chs, 0 when there is none
FirstDelete(chs) ==
    IF \E k \in 1..Len(chs) : ActionOf(chs[k]) = "delete_file"
    THEN CHOOSE k \in 1..Len(chs) :
            /\ ActionOf(chs[k]) = "delete_file"
            /\ \A j \in 1..(k - 1) : ActionOf(chs[j]) # "delete_file"
    ELSE 0

NoDelete(chs) == FirstDelete(chs) = 0

\* the run of the function over the first k changes of this call
PrefixRun(k) == apply_changes_locally(original_content, SubSeq(changes, 1, k))

\* the buffer the k-th change of this call is applied to
BufferBefore(k) == PrefixRun(k - 1).returned.value

\* chs without its k-th element
RemoveAt(chs, k) == SubSeq(chs, 1, k - 1) \o SubSeq(chs, k + 1, Len(chs))

\* s holds a character that normalize_whitespace rewrites
HasTabOrCRLF(s) == Contains(s, <<"\t">>) \/ Contains(s, <<"\r", "\n">>)

\* the number of (possibly overlapping) occurrences of t in s
Occurrences(s, t) == Cardinality({ i \in 0..Len(s) : MatchesAt(s, t, i) })

\* an anchored change: replace, erase, or insert before/after
IsAnchored(ch) ==
    \/ ActionOf(ch) \in {"replace", "erase"}
    \/ ActionOf(ch) = "insert" /\ Get(ch, "position", "after") \notin {"start", "end"}

\* an anchored change whose non-empty search text is not found in buf
AnchorNotFound(buf, ch) ==
    /\ IsAnchored(ch)
    /\ Get(ch, "search", <<>>) # <<>>
    /\ ~Contains(normalize_whitespace(buf),
                 normalize_whitespace(Get(ch, "search", <<>>)))

\* the loop is about to run an iteration
InLoop == pc = "loop" /\ pos < Len(changes)

-----------------------------------------------------------------------------
\* C1: when the list holds a delete_file, the call returns None, the loop
\* never goes past the first delete_file, and the buffer and the prints are
\* those of the changes before it: nothing after it is executed.
C1_DeleteShortCircuit ==
    LET d == FirstDelete(changes)
    IN  d # 0 =>
          /\ pos <= d
          /\ pc = "returned" =>
                /\ result = ReturnedNone
                /\ pos = d
                /\ content = PrefixRun(d - 1).returned.value
                /\ printed = PrefixRun(d - 1).printed

\* C1 witness: a delete_file in the middle of the list has returned None,
\* with a change after it that would have rewritten the buffer or printed
C1_Witness ==
    LET d == FirstDelete(changes)
    IN  /\ pc = "returned"
        /\ result = ReturnedNone
        /\ d = 2
        /\ Len(changes) = 3
        /\ ActionOf(changes[3]) \in {"write", "erase"}
        /\ content # <<>>

\* C2: write precedence: without a delete_file in the list, the call
\* returns, for every write with content c in it, what the changes after
\* that write give when applied to c alone.
C2_WritePrecedence ==
    (pc = "returned" /\ NoDelete(changes)) =>
        \A k \in 1..Len(changes) :
            (ActionOf(changes[k]) = "write" /\ "content" \in DOMAIN changes[k]) =>
                result = apply_changes_locally(changes[k].content,
                             SubSeq(changes, k + 1, Len(changes))).returned

\* C2 witness: a write in the middle, after a change that rewrote the
\* original content and before a change that rewrote the written content
C2_Witness ==
    /\ pc = "returned"
    /\ NoDelete(changes)
    /\ Len(changes) = 3
    /\ ActionOf(changes[2]) = "write"
    /\ "content" \in DOMAIN changes[2]
    /\ IsAnchored(changes[1])
    /\ IsAnchored(changes[3])
    /\ BufferBefore(2) # original_content
    /\ result.value # changes[2].content
    /\ original_content # <<>>

\* C3: given order, cumulative buffer: without a delete_file, the call on
\* A \o B returns what the function gives for B on the result of A, for
\* every split of the list.
C3_SequentialComposition ==
    (pc = "returned" /\ NoDelete(changes)) =>
        \A k \in 0..Len(changes) :
            result = apply_changes_locally(PrefixRun(k).returned.value,
                         SubSeq(changes, k + 1, Len(changes))).returned

\* C3 witness: three anchored changes, each of which rewrote the buffer
C3_Witness ==
    /\ pc = "returned"
    /\ Len(changes) = 3
    /\ \A k \in 1..3 : /\ IsAnchored(changes[k])
                       /\ BufferBefore(k + 1) # BufferBefore(k)
    /\ result.value = BufferBefore(4)

\* C4: replace exactness: with no tab or CRLF in the buffer or the search
\* text, a replace whose non-empty search text occurs in the buffer leaves
\* buffer[:i] + replace + buffer[i+len(search):], i the first occurrence.
C4_ReplaceExactness ==
    [][ (/\ InLoop
         /\ ActionOf(change) = "replace"
         /\ Get(change, "search", <<>>) # <<>>
         /\ ~HasTabOrCRLF(content)
         /\ ~HasTabOrCRLF(Get(change, "search", <<>>))
         /\ Contains(content, Get(change, "search", <<>>)))
        =>
        LET search == Get(change, "search", <<>>)
            i      == StrFind(content, search)
        IN  content' = SubSeq(content, 1, i) \o Get(change, "replace", <<>>)
                           \o SubSeq(content, i + Len(search) + 1, Len(content))
      ]_vars

\* C4 witness: a replace has run on a buffer that held its search text more
\* than once, the first occurrence not at the start
C4_Witness ==
    /\ pos >= 1
    /\ ActionOf(changes[pos]) = "replace"
    /\ Occurrences(BufferBefore(pos), Get(changes[pos], "search", <<>>)) >= 2
    /\ StrFind(BufferBefore(pos), Get(changes[pos], "search", <<>>)) > 0
    /\ content # BufferBefore(pos)

\* the warning each anchored action prints first when its anchor is missing
NotFoundWarning(a) ==
    CASE a = "replace" -> "Warning: Could not find search text for replace operation"
      [] a = "erase"   -> "Warning: Could not find search text for erase operation"
      [] OTHER         -> "Warning: Could not find anchor text for insert operation"

\* some line of buf contains the stripped first line of search_text
SimilarLineExists(buf, search_text) ==
    \E i \in 1..Len(SplitLines(buf)) :
        Contains(SplitLines(buf)[i], Strip(SplitLines(search_text)[1]))

\* the print() calls an anchor that is not found costs
NotFoundPrints(buf, ch) ==
    IF ActionOf(ch) = "replace"
    THEN 2 + (IF SimilarLineExists(buf, Get(ch, "search", <<>>)) THEN 1 ELSE 0)
    ELSE 1

\* C5 as stated: an anchored change whose search text is not found leaves
\* the buffer unchanged and adds exactly one diagnostic entry.
C5_ExactlyOneDiagnostic ==
    [][ (InLoop /\ AnchorNotFound(content, change))
        => (content' = content /\ Len(printed') = Len(printed) + 1) ]_vars

\* C5 amended: an anchored change whose search text is not found leaves the
\* buffer unchanged and the loop goes on; erase and insert print exactly one
\* warning, replace prints its warning, the text searched for and, when some
\* line of the buffer contains the stripped first line of the search text, a
\* suggestion (two or three prints).
C5_NotFoundNonFatal ==
    [][ (InLoop /\ AnchorNotFound(content, change))
        => /\ content' = content
           /\ pos' = pos + 1
           /\ pc' = "loop"
           /\ Len(printed') = Len(printed) + NotFoundPrints(content, change)
           /\ SubSeq(printed', 1, Len(printed)) = printed
           /\ printed'[Len(printed) + 1].msg = NotFoundWarning(ActionOf(change))
      ]_vars

\* C5 witness: a replace, an erase and an insert have each missed their
\* anchor, the replace having printed a suggestion
C5_Witness ==
    /\ pos = 3
    /\ ActionOf(changes[1]) = "replace"
    /\ ActionOf(changes[2]) = "erase"
    /\ ActionOf(changes[3]) = "insert"
    /\ \A k \in 1..3 : AnchorNotFound(BufferBefore(k), changes[k])
    /\ Len(printed) = 5
    /\ content = original_content
    /\ content # <<>>

\* the k-th change of this call is one the engine cannot carry out: its
\* action is not known, or its anchor is not in the buffer it meets
FailedAt(k) ==
    \/ ActionOf(changes[k]) \notin KnownActions
    \/ AnchorNotFound(BufferBefore(k), changes[k])

\* what holds of a call that has returned, for C6
ReturnedAfterFailures ==
    pc = "returned" =>
        /\ result.kind = "str" => (pos = Len(changes) /\ NoDelete(changes))
        /\ result.kind = "None" => ActionOf(changes[pos]) = "delete_file"
        /\ result.kind \in {"str", "None"}
        /\ \A k \in 1..pos :
              FailedAt(k) =>
                  result = apply_changes_locally(original_content,
                               RemoveAt(changes, k)).returned

\* C6: a change that fails never ends the call.  A step on a change with an
\* unknown action or a missed anchor leaves the buffer as it is and moves on
\* to the next change; every step of the loop consumes one change or
\* returns, and the loop never runs past the list, so the call returns; it
\* returns a string only after the whole list and None only at a
\* delete_file, and the returned value is the one of the list without the
\* failed change: the later changes were applied as if it had not been
\* there.
C6_FailureDoesNotAbort ==
    /\ [](pc = "loop" => pos <= Len(changes))
    /\ [](ReturnedAfterFailures)
    /\ [][ pc = "loop" =>
             /\ pos' = pos + 1 \/ (pos' = pos /\ pos = Len(changes))
             /\ pc' = "returned" =>
                   \/ pos = Len(changes)
                   \/ ActionOf(change) = "delete_file"
             /\ (pos < Len(changes) /\ FailedAt(pos + 1)) =>
                   (content' = content /\ pc' = "loop")
         ]_vars

\* C6 witness: the first change failed and the two after it both rewrote
\* the buffer
C6_Witness ==
    /\ pc = "returned"
    /\ result.kind = "str"
    /\ Len(changes) = 3
    /\ FailedAt(1)
    /\ BufferBefore(3) # BufferBefore(2)
    /\ BufferBefore(4) # BufferBefore(3)
    /\ result.value = BufferBefore(4)

\* a change without a key its action requires
Malformed(ch) ==
    \/ ActionOf(ch) = "write" /\ "content" \notin DOMAIN ch
    \/ IsAnchored(ch) /\ "search" \notin DOMAIN ch

\* C7 as stated: a change that lacks a key its action requires (search for
\* replace, erase, insert before/after; content for write) is skipped: the
\* buffer stays as it is and the loop goes on to the next change.
C7_MalformedSkipped ==
    [][ (InLoop /\ Malformed(change))
        => (content' = content /\ pos' = pos + 1 /\ pc' = "loop") ]_vars

\* C7, what holds of the code: a replace, an erase or an insert
\* before/after without a search key is skipped with one warning; a write
\* without a content key sets the buffer to the empty string.
C7_OnlyMissingSearchSkipped ==
    [][ (InLoop /\ Malformed(change))
        => /\ pos' = pos + 1
           /\ pc' = "loop"
           /\ IF ActionOf(change) = "write"
              THEN content' = <<>> /\ printed' = printed
              ELSE content' = content /\ Len(printed') = Len(printed) + 1
      ]_vars

-----------------------------------------------------------------------------
(* Line-addressed changes handed to apply_changes_locally *)

\* erase the line 5, whose text is "e"
LineErase5 == [file |-> EngineFile, action |-> "erase", line |-> 5,
               content |-> <<"e">>]

\* insert "x" at the line 2
LineInsert2 == [file |-> EngineFile, action |-> "insert", line |-> 2,
                content |-> <<"x">>]

\* line-addressed changes, and changes of the other branches
LineChanges ==
    { LineErase5,
      LineInsert2,
      [file |-> EngineFile, action |-> "erase", line |-> 2, content |-> <<"b">>],
      [file |-> EngineFile, action |-> "write", content |-> <<"b", "\n", "a">>],
      [file |-> EngineFile, action |-> "delete_file"],
      [file |-> EngineFile, action |-> "replace", search |-> <<"b">>,
       replace |-> <<"c", "\n", "c">>],
      [file |-> EngineFile, action |-> "write", line |-> 1, content |-> <<"x">>],
      [file |-> EngineFile, action |-> "rename", line |-> 1] }

\* files of five and of two lines
LineContents ==
    { <<"a", "\n", "b", "\n", "c", "\n", "d", "\n", "e">>,
      <<"a", "\n", "b">> }

LineInit == EngineInit(LineContents, LineChanges)

SpecLine == LineInit /\ [][Next]_vars

\* ch addresses a line: it has a line number and neither a search text nor
\* a position
LineAddressed(ch) ==
    /\ ActionOf(ch) \in {"erase", "insert"}
    /\ "line" \in DOMAIN ch
    /\ "search" \notin DOMAIN ch
    /\ "position" \notin DOMAIN ch

\* ch without its line number
WithoutLine(ch) == [k \in (DOMAIN ch) \ {"line"} |-> ch[k]]

-----------------------------------------------------------------------------
(* src/app.py: chat, from the answer of the first query_llm on.  The       *)
(* repository is the map store; remote records the calls the two file      *)
(* loops make to it (get_repo_structure only reads and is not recorded).   *)
(* A call to the repository either raises (requests fails) or completes.   *)

\* the longest change list a query_llm answers with
MaxChatChanges == 2

\* the paths the changes name
ChatFiles == {"a.py", "b.py"}

\* what a change of the request handler can be: its file and its action
ChatChangesOf(f) ==
    { [file |-> f, action |-> "write", content |-> <<"b">>],
      [file |-> f, action |-> "insert", insert |-> <<"c">>, position |-> "end"],
      [file |-> f, action |-> "delete_file"] }

ChatChanges == UNION { ChatChangesOf(f) : f \in ChatFiles }

\* a path of the repository that holds no file, and one that holds text
Missing == [exists |-> FALSE, content |-> <<>>]

Present(text) == [exists |-> TRUE, content |-> text]

\* the revision token of an existing file
Sha == "sha"

\* get_file_content(token, owner, repo, path): (content, sha), or
\* (None, None) when the answer is not 200; none says that content is None
get_file_content(path) ==
    IF store[path].exists
    THEN [none |-> FALSE, content |-> store[path].content, sha |-> Sha]
    ELSE [none |-> TRUE, content |-> <<>>, sha |-> None]

\* a grouping loop that puts the group of a file it sees for the first time
\* in front of the groups it has
RECURSIVE GroupIntoNewestFirst(_, _)
GroupIntoNewestFirst(by_file, chs) ==
    IF chs = <<>> THEN by_file
    ELSE LET fname == Head(chs).file
             known == \E i \in 1..Len(by_file) : by_file[i].fname = fname
             added == IF known THEN by_file
                      ELSE <<[fname |-> fname, file_changes |-> <<>>]>> \o by_file
         IN  GroupIntoNewestFirst(
                 [i \in 1..Len(added) |->
                     IF added[i].fname = fname
                     THEN [added[i] EXCEPT !.file_changes = Append(@, Head(chs))]
                     ELSE added[i]],
                 Tail(chs))

\* the grouping loop of chat: chs added to the groups by_file
RECURSIVE GroupInto(_, _)
GroupInto(by_file, chs) ==
    IF chs = <<>> THEN by_file
    ELSE LET fname == Head(chs).file
             known == \E i \in 1..Len(by_file) : by_file[i].fname = fname
             added == IF known THEN by_file
                      ELSE Append(by_file, [fname |-> fname, file_changes |-> <<>>])
         IN  GroupInto(
                 [i \in 1..Len(added) |->
                     IF added[i].fname = fname
                     THEN [added[i] EXCEPT !.file_changes = Append(@, Head(chs))]
                     ELSE added[i]],
                 Tail(chs))

\* changes_by_file after the grouping loop
GroupByFile(chs) == GroupInto(<<>>, chs)

\* one line of execution_log or review_log: the text and the file it names
LogEntry(text, fname) == [text |-> text, fname |-> fname]

\* one call of a file loop: to the repository, or to apply_changes_locally
Call(name, path, sha) == [call |-> name, path |-> path, sha |-> sha,
                          pass |-> chat_pc]

ChatInit ==
    /\ original_content = <<>>
    /\ changes = <<>>
    /\ content = <<>>
    /\ pos = 0
    /\ printed = <<>>
    /\ pc = "idle"
    /\ result = Pending
    /\ store = [f \in ChatFiles |-> IF f = "a.py" THEN Present(<<"a">>) ELSE Missing]
    /\ chat_pc = "start"
    /\ chat_changes \in ListsUpTo(ChatChanges, MaxChatChanges)
    /\ review_changes = <<>>
    /\ changes_by_file = <<>>
    /\ file_idx = 0
    /\ execution_log = <<>>
    /\ review_log = <<>>
    /\ remote = <<>>
    /\ response = "pending"

\* `if changes:` is false: nothing to process, no review
NoChanges ==
    /\ chat_pc = "start"
    /\ chat_changes = <<>>
    /\ chat_pc' = "done"
    /\ response' = "answered"
    /\ UNCHANGED <<engineVars, store, chat_changes, review_changes, changes_by_file,
                   file_idx, execution_log, review_log, remote>>

\* `if changes:` is true: group the changes by file
GroupChanges ==
    /\ chat_pc = "start"
    /\ chat_changes # <<>>
    /\ changes_by_file' = GroupByFile(chat_changes)
    /\ file_idx' = 0
    /\ chat_pc' = "main"
    /\ UNCHANGED <<engineVars, store, chat_changes, review_changes,
                   execution_log, review_log, remote, response>>

\* the loop of the pass p has a next group
InFileLoop(p) == chat_pc = p /\ file_idx < Len(changes_by_file)

\* the loop variables of the iteration about to run
fname == changes_by_file[file_idx + 1].fname

file_changes == changes_by_file[file_idx + 1].file_changes

\* what get_file_content answers for this group, and what
\* apply_changes_locally makes of it (content None is replaced by "")
fetched == get_file_content(fname)

new_content == apply_changes_locally(fetched.content, file_changes).returned

\* the iteration is over: the calls it made, the repository it leaves
FileDone(calls, newStore) ==
    /\ remote' = remote \o calls
    /\ store' = newStore
    /\ file_idx' = file_idx + 1
    /\ UNCHANGED <<engineVars, chat_pc, chat_changes, review_changes,
                   changes_by_file, response>>

GetCall == Call("get_file_content", fname, None)

\* apply_changes_locally(content, file_changes), entered once the fetch has
\* returned
ApplyCall == Call("apply_changes_locally", fname, None)

DeleteCall == Call("delete_file_from_github", fname, fetched.sha)

PushCall == Call("push_to_github", fname, fetched.sha)

\* main pass: get_file_content raises
MainFetchRaises ==
    /\ InFileLoop("main")
    /\ FileDone(<<GetCall>>, store)
    /\ execution_log' = Append(execution_log, LogEntry("Failed to update", fname))
    /\ UNCHANGED review_log

\* main pass: the outcome is None and a sha was fetched: remote delete
MainDeleted ==
    /\ InFileLoop("main")
    /\ new_content = ReturnedNone
    /\ fetched.sha # None
    /\ FileDone(<<GetCall, ApplyCall, DeleteCall>>, [store EXCEPT ![fname] = Missing])
    /\ execution_log' = Append(execution_log, LogEntry("Deleted", fname))
    /\ UNCHANGED review_log

\* main pass: delete_file_from_github raises
MainDeleteRaises ==
    /\ InFileLoop("main")
    /\ new_content = ReturnedNone
    /\ fetched.sha # None
    /\ FileDone(<<GetCall, ApplyCall, DeleteCall>>, store)
    /\ execution_log' = Append(execution_log, LogEntry("Failed to update", fname))
    /\ UNCHANGED review_log

\* main pass: the outcome is None and no sha was fetched: skip, logged
MainSkippedDelete ==
    /\ InFileLoop("main")
    /\ new_content = ReturnedNone
    /\ fetched.sha = None
    /\ FileDone(<<GetCall, ApplyCall>>, store)
    /\ execution_log' = Append(execution_log,
                            LogEntry("Skipped delete (File not found)", fname))
    /\ UNCHANGED review_log

\* main pass: the outcome is a string: push it
MainUpdated ==
    /\ InFileLoop("main")
    /\ new_content # ReturnedNone
    /\ FileDone(<<GetCall, ApplyCall, PushCall>>,
                [store EXCEPT ![fname] = Present(new_content.value)])
    /\ execution_log' = Append(execution_log, LogEntry("Updated", fname))
    /\ UNCHANGED review_log

\* main pass: push_to_github raises
MainPushRaises ==
    /\ InFileLoop("main")
    /\ new_content # ReturnedNone
    /\ FileDone(<<GetCall, ApplyCall, PushCall>>, store)
    /\ execution_log' = Append(execution_log, LogEntry("Failed to update", fname))
    /\ UNCHANGED review_log

\* the main loop is over; the review's get_repo_structure or query_llm
\* raises: review_error, no review pass
ReviewQueryRaises ==
    /\ chat_pc = "main"
    /\ file_idx = Len(changes_by_file)
    /\ chat_pc' = "done"
    /\ response' = "answered with review_error"
    /\ UNCHANGED <<engineVars, store, chat_changes, review_changes, changes_by_file,
                   file_idx, execution_log, review_log, remote>>

\* the main loop is over; the review answers without changes
ReviewWithoutChanges ==
    /\ chat_pc = "main"
    /\ file_idx = Len(changes_by_file)
    /\ review_changes' = <<>>
    /\ chat_pc' = "done"
    /\ response' = "answered with review"
    /\ UNCHANGED <<engineVars, store, chat_changes, changes_by_file,
                   file_idx, execution_log, review_log, remote>>

\* the main loop is over; the review answers with changes: group them
ReviewGroupChanges ==
    /\ chat_pc = "main"
    /\ file_idx = Len(changes_by_file)
    /\ \E chs \in ListsUpTo(ChatChanges, MaxChatChanges) :
          /\ chs # <<>>
          /\ review_changes' = chs
          /\ changes_by_file' = GroupByFile(chs)
    /\ file_idx' = 0
    /\ chat_pc' = "review"
    /\ UNCHANGED <<engineVars, store, chat_changes, execution_log, review_log,
                   remote, response>>

\* review pass: get_file_content raises
ReviewFetchRaises ==
    /\ InFileLoop("review")
    /\ FileDone(<<GetCall>>, store)
    /\ review_log' = Append(review_log, LogEntry("Failed to fix", fname))
    /\ UNCHANGED execution_log

\* review pass: the outcome is None and a sha was fetched: remote delete
ReviewDeleted ==
    /\ InFileLoop("review")
    /\ new_content = ReturnedNone
    /\ fetched.sha # None
    /\ FileDone(<<GetCall, ApplyCall, DeleteCall>>, [store EXCEPT ![fname] = Missing])
    /\ review_log' = Append(review_log, LogEntry("Deleted", fname))
    /\ UNCHANGED execution_log

\* review pass: delete_file_from_github raises
ReviewDeleteRaises ==
    /\ InFileLoop("review")
    /\ new_content = ReturnedNone
    /\ fetched.sha # None
    /\ FileDone(<<GetCall, ApplyCall, DeleteCall>>, store)
    /\ review_log' = Append(review_log, LogEntry("Failed to fix", fname))
    /\ UNCHANGED execution_log

\* review pass: the outcome is None and no sha was fetched: `if sha:` has
\* no else, nothing is called and nothing is logged
ReviewDeleteWithoutSha ==
    /\ InFileLoop("review")
    /\ new_content = ReturnedNone
    /\ fetched.sha = None
    /\ FileDone(<<GetCall, ApplyCall>>, store)
    /\ UNCHANGED <<execution_log, review_log>>

\* review pass: the outcome is a string: push it
ReviewFixed ==
    /\ InFileLoop("review")
    /\ new_content # ReturnedNone
    /\ FileDone(<<GetCall, ApplyCall, PushCall>>,
                [store EXCEPT ![fname] = Present(new_content.value)])
    /\ review_log' = Append(review_log, LogEntry("Fixed", fname))
    /\ UNCHANGED execution_log

\* review pass: push_to_github raises
ReviewPushRaises ==
    /\ InFileLoop("review")
    /\ new_content # ReturnedNone
    /\ FileDone(<<GetCall, ApplyCall, PushCall>>, store)
    /\ review_log' = Append(review_log, LogEntry("Failed to fix", fname))
    /\ UNCHANGED execution_log

\* the review loop is over: response_data["review_log"] = review_log
ReviewDone ==
    /\ chat_pc = "review"
    /\ file_idx = Len(changes_by_file)
    /\ chat_pc' = "done"
    /\ response' = "answered with review_log"
    /\ UNCHANGED <<engineVars, store, chat_changes, review_changes, changes_by_file,
                   file_idx, execution_log, review_log, remote>>

ChatNext ==
    \/ NoChanges
    \/ GroupChanges
    \/ MainFetchRaises
    \/ MainDeleted
    \/ MainDeleteRaises
    \/ MainSkippedDelete
    \/ MainUpdated
    \/ MainPushRaises
    \/ ReviewQueryRaises
    \/ ReviewWithoutChanges
    \/ ReviewGroupChanges
    \/ ReviewFetchRaises
    \/ ReviewDeleted
    \/ ReviewDeleteRaises
    \/ ReviewDeleteWithoutSha
    \/ ReviewFixed
    \/ ReviewPushRaises
    \/ ReviewDone

SpecChat == ChatInit /\ [][ChatNext]_vars

-----------------------------------------------------------------------------
(* Vocabulary of the properties of chat *)

\* the files a change list names
FilesOf(chs) == { chs[i].file : i \in 1..Len(chs) }

\* the number of entries of log that name the file f
Reports(log, f) == Cardinality({ i \in 1..Len(log) : log[i].fname = f })

\* the number of times the file loop of the pass p fetched the file f
Fetches(p, f) ==
    Cardinality({ i \in 1..Len(remote) :
                    /\ remote[i].call = "get_file_content"
                    /\ remote[i].pass = p
                    /\ remote[i].path = f })

\* the file loop of the main pass, of the review pass, has run to its end
MainLoopOver ==
    \/ chat_pc = "main" /\ file_idx = Len(changes_by_file)
    \/ chat_pc = "review"
    \/ chat_pc = "done" /\ chat_changes # <<>>

ReviewLoopOver == response = "answered with review_log"

\* the log of the pass that is running
PassLog == IF chat_pc = "main" THEN execution_log ELSE review_log

\* this step of a file loop is one whose get_file_content raised: only the
\* fetch was called and the pass's log got a failure entry
FetchRaised ==
    /\ remote' = Append(remote, GetCall)
    /\ PassLog' = Append(PassLog,
                    LogEntry(IF chat_pc = "main" THEN "Failed to update"
                             ELSE "Failed to fix", fname))

\* this step of a file loop called delete_file_from_github for its file
DeleteIssued ==
    \E i \in (Len(remote) + 1)..Len(remote') :
        remote'[i].call = "delete_file_from_github" /\ remote'[i].path = fname

\* this step of a file loop logged that it skipped the delete of its file
SkipLogged ==
    /\ Len(PassLog') = Len(PassLog) + 1
    /\ PassLog'[Len(PassLog')].fname = fname
    /\ PassLog'[Len(PassLog')].text = "Skipped delete (File not found)"

\* a step of a file loop whose group has the outcome Deleted
DeletedOutcomeStep(p) ==
    /\ InFileLoop(p)
    /\ new_content = ReturnedNone
    /\ file_idx' = file_idx + 1
    /\ ~FetchRaised

\* C8 as stated: per-file isolation in both passes of chat: once a file
\* loop has run to its end, every distinct file its change list names was
\* fetched (its processing attempt) and has its own report in the pass's
\* log, whatever failed for the other files.
C8_PerFileIsolation ==
    /\ MainLoopOver =>
          \A f \in FilesOf(chat_changes) :
              Fetches("main", f) = 1 /\ Reports(execution_log, f) = 1
    /\ ReviewLoopOver =>
          \A f \in FilesOf(review_changes) :
              Fetches("review", f) = 1 /\ Reports(review_log, f) = 1

\* C8, what holds of the code: every file of either pass gets its attempt,
\* and every file of the main pass gets exactly one report.
C8_AttemptsAndMainReports ==
    /\ MainLoopOver =>
          \A f \in FilesOf(chat_changes) :
              Fetches("main", f) = 1 /\ Reports(execution_log, f) = 1
    /\ ReviewLoopOver =>
          \A f \in FilesOf(review_changes) :
              Fetches("review", f) = 1 /\ Reports(review_log, f) <= 1

\* C9 as stated: in both passes, when a file's outcome is Deleted the
\* remote delete is issued if and only if a sha was fetched, and without a
\* sha a skip entry is logged for the file.
C9_DeleteIffSha ==
    [][ \A p \in {"main", "review"} :
          DeletedOutcomeStep(p) =>
              /\ DeleteIssued <=> fetched.sha # None
              /\ fetched.sha = None => SkipLogged
      ]_vars

\* C9, what holds of the code: the remote delete is issued if and only if
\* a sha was fetched in both passes; the skip entry is logged in the main
\* pass only.
C9_DeleteIffShaSkipInMain ==
    [][ \A p \in {"main", "review"} :
          DeletedOutcomeStep(p) =>
              /\ DeleteIssued <=> fetched.sha # None
              /\ fetched.sha = None => (SkipLogged <=> p = "main")
      ]_vars

-----------------------------------------------------------------------------
(* Fuzzy matching: file contents and search texts whose tabs, CRLF and     *)
(* runs of four spaces make the normalized text differ from the original.  *)

\* changes whose search text is spelled with or without the characters
\* normalize_whitespace rewrites
FuzzyChanges ==
    { [file |-> EngineFile, action |-> "replace",
       search |-> <<" ", " ", " ", " ", "a">>, replace |-> <<"c">>],
      [file |-> EngineFile, action |-> "replace", search |-> <<"\t", "a">>,
       replace |-> <<"c">>],
      [file |-> EngineFile, action |-> "erase", search |-> <<"a", "\n", "b">>],
      [file |-> EngineFile, action |-> "erase", search |-> <<"b">>],
      [file |-> EngineFile, action |-> "insert", search |-> <<"\t", "a">>,
       insert |-> <<"x">>, position |-> "before"],
      [file |-> EngineFile, action |-> "insert",
       search |-> <<" ", " ", " ", " ", "a">>, insert |-> <<"x">>],
      [file |-> EngineFile, action |-> "insert", search |-> <<"b">>,
       insert |-> <<"x">>, position |-> "after"],
      [file |-> EngineFile, action |-> "insert", search |-> <<"b">>,
       insert |-> <<"y">>, position |-> "start"],
      [file |-> EngineFile, action |-> "insert", search |-> <<"a">>,
       insert |-> <<"y">>, position |-> "end"],
      [file |-> EngineFile, action |-> "insert", insert |-> <<"x">>,
       position |-> "start"],
      [file |-> EngineFile, action |-> "write", content |-> <<"b", "\t", "a">>],
      [file |-> EngineFile, action |-> "delete_file"],
      [file |-> EngineFile, action |-> "rename"] }

\* the file contents the fuzzy matching starts from
FuzzyContents ==
    { <<"\t", "a", "b">>, <<" ", " ", " ", " ", "a", "b">>,
      <<"a", "\r", "\n", "b">>, <<"b", "\t", "a">>, <<"a", "b">> }

FuzzyInit == EngineInit(FuzzyContents, FuzzyChanges)

SpecFuzzy == FuzzyInit /\ [][Next]_vars

\* the spans [start, end) of buf that normalize to the first occurrence of
\* the normalized search text in the normalized buf: at most one, and none
\* when the occurrence starts or ends inside the expansion of a tab
MatchedSpans(buf, search_text) ==
    LET normalized_content == normalize_whitespace(buf)
        normalized_search  == normalize_whitespace(search_text)
        norm_index         == StrFind(normalized_content, normalized_search)
        norm_end           == norm_index + Len(normalized_search)
    IN  { sp \in (0..Len(buf)) \X (0..Len(buf)) :
            /\ sp[1] <= sp[2]
            /\ normalize_whitespace(SliceTo(buf, sp[1]))
                   = SliceTo(normalized_content, norm_index)
            /\ normalize_whitespace(SliceTo(buf, sp[2]))
                   = SliceTo(normalized_content, norm_end)
            /\ normalize_whitespace(Slice(buf, sp[1], sp[2])) = normalized_search }

\* the iteration about to run is an anchored change whose search text is
\* found, it matches a span of the buffer, and no tab or CRLF lies in the
\* buffer before that span
FuzzyCase ==
    /\ InLoop
    /\ IsAnchored(change)
    /\ Get(change, "search", <<>>) # <<>>
    /\ find_in_content(content, Get(change, "search", <<>>)).found
    /\ \E sp \in MatchedSpans(content, Get(change, "search", <<>>)) :
          ~HasTabOrCRLF(SliceTo(content, sp[1]))

\* the buffer after an anchored change has acted on the span [s, e)
ActedOnSpan(buf, ch, s, e) ==
    IF ActionOf(ch) = "replace"
    THEN SliceTo(buf, s) \o Get(ch, "replace", <<>>) \o SliceFrom(buf, e)
    ELSE IF ActionOf(ch) = "erase"
    THEN SliceTo(buf, s) \o SliceFrom(buf, e)
    ELSE IF Get(ch, "position", "after") = "before"
    THEN SliceTo(buf, s) \o Get(ch, "insert", <<>>) \o SliceFrom(buf, s)
    ELSE SliceTo(buf, e) \o Get(ch, "insert", <<>>) \o SliceFrom(buf, e)

\* C11: whenever no tab or CRLF occurs in the buffer before the match, a
\* replace, erase or insert before/after acts on exactly the span of the
\* original text that the normalized search matched, from the start of the
\* match to the end of the matched original text, also when the search
\* text or the matched region holds tabs or CRLF
C11_FuzzySpanExact ==
    [][ FuzzyCase =>
          \A sp \in MatchedSpans(content, Get(change, "search", <<>>)) :
              content' = ActedOnSpan(content, change, sp[1], sp[2])
      ]_vars

\* what the code does in that case: the span starts at the match and is as
\* long as the search text as it was written, so it is the matched span
\* only when the matched region is as long as the written search text
C11_SpanOfSearchLength ==
    [][ FuzzyCase =>
          \A sp \in MatchedSpans(content, Get(change, "search", <<>>)) :
              /\ content' = ActedOnSpan(content, change, sp[1],
                                sp[1] + Len(Get(change, "search", <<>>)))
              /\ sp[2] - sp[1] = Len(Get(change, "search", <<>>))
                     => content' = ActedOnSpan(content, change, sp[1], sp[2])
      ]_vars

-----------------------------------------------------------------------------
(* Insert placement *)

\* the offset an anchored change is located at: the offset of the first
\* occurrence of the normalized search text in the normalized buffer,
\* taken as an offset into the buffer
LocatedAt(buf, search_text) ==
    Min(StrFind(normalize_whitespace(buf), normalize_whitespace(search_text)),
        Len(buf))

\* t is s with the text ins spliced in at offset k
SplicedAt(t, s, ins, k) ==
    /\ k \in 0..Len(s)
    /\ t = SubSeq(s, 1, k) \o ins \o SubSeq(s, k + 1, Len(s))

-----------------------------------------------------------------------------
(* The sequencer: chat with change lists that name a file, then another    *)
(* file, then the first file again.                                        *)

\* the change lists [x, y, z] with x and z for one file and y for another
InterleavedChanges ==
    UNION { { <<x, y, z>> : x \in ChatChangesOf(f), z \in ChatChangesOf(f),
                            y \in UNION { ChatChangesOf(g) : g \in ChatFiles \ {f} } }
            : f \in ChatFiles }

\* the state at the entry of chat, the changes of the main pass interleaved
\* or empty
SeqInit ==
    /\ original_content = <<>>
    /\ changes = <<>>
    /\ content = <<>>
    /\ pos = 0
    /\ printed = <<>>
    /\ pc = "idle"
    /\ result = Pending
    /\ store = [f \in ChatFiles |-> IF f = "a.py" THEN Present(<<"a">>) ELSE Missing]
    /\ chat_pc = "start"
    /\ chat_changes \in InterleavedChanges \cup {<<>>}
    /\ review_changes = <<>>
    /\ changes_by_file = <<>>
    /\ file_idx = 0
    /\ execution_log = <<>>
    /\ review_log = <<>>
    /\ remote = <<>>
    /\ response = "pending"

SpecSeq == SeqInit /\ [][ChatNext]_vars

\* a file loop is running or has just run to its end
InPass == chat_pc \in {"main", "review"}

\* the flat change list of the pass that is running
PassChanges == IF chat_pc = "main" THEN chat_changes ELSE review_changes

\* the place where the file f is first named in chs
FirstIndex(chs, f) ==
    CHOOSE i \in 1..Len(chs) :
        /\ chs[i].file = f
        /\ \A j \in 1..(i - 1) : chs[j].file # f

\* the changes of chs that name the file f, in the order of chs
NamingFile(chs, f) == SelectSeq(chs, LAMBDA c : c.file = f)

\* changes_by_file partitions the pass's change list by file: one group for
\* each file named, the groups in the order their files are first named,
\* each group the changes naming its file in their arrival order
Partitioned ==
    /\ { changes_by_file[i].fname : i \in 1..Len(changes_by_file) }
           = FilesOf(PassChanges)
    /\ \A i, j \in 1..Len(changes_by_file) :
           i < j => FirstIndex(PassChanges, changes_by_file[i].fname)
                        < FirstIndex(PassChanges, changes_by_file[j].fname)
    /\ \A i \in 1..Len(changes_by_file) :
           changes_by_file[i].file_changes
               = NamingFile(PassChanges, changes_by_file[i].fname)

\* the fetches of the running pass are those of the groups processed so
\* far, one for each group, in the order of the groups
FetchedInOrder ==
    LET gets == SelectSeq(remote, LAMBDA r : /\ r.call = "get_file_content"
                                             /\ r.pass = chat_pc)
    IN  /\ Len(gets) = file_idx
        /\ \A i \in 1..file_idx : gets[i].path = changes_by_file[i].fname

\* the number of times the file loop of the pass p applied the changes of
\* the file f
Applies(p, f) ==
    Cardinality({ i \in 1..Len(remote) :
                    /\ remote[i].call = "apply_changes_locally"
                    /\ remote[i].pass = p
                    /\ remote[i].path = f })

\* C13 as stated: the sequencer partitions the flat change list by target
\* file, the files are processed in first-seen order, each group holds
\* exactly the changes naming its file in arrival order, and each distinct
\* file is fetched and applied exactly once per pass
C13_FetchedAndAppliedOnce ==
    InPass =>
        /\ Partitioned
        /\ FetchedInOrder
        /\ \A i \in 1..Len(changes_by_file) :
               LET f == changes_by_file[i].fname
                   n == IF i <= file_idx THEN 1 ELSE 0
               IN  Fetches(chat_pc, f) = n /\ Applies(chat_pc, f) = n

\* the fetches and applications of the running pass, file by file: a file
\* processed is fetched once and applied at most once, right after its
\* fetch; a file not yet processed is neither fetched nor applied
OncePerPass ==
    /\ \A i \in 1..Len(changes_by_file) :
           LET f == changes_by_file[i].fname
           IN  /\ Fetches(chat_pc, f) = (IF i <= file_idx THEN 1 ELSE 0)
               /\ Applies(chat_pc, f) <= Fetches(chat_pc, f)
    /\ \A k \in 1..Len(remote) :
           remote[k].call = "apply_changes_locally"
               => /\ k > 1
                  /\ remote[k - 1].call = "get_file_content"
                  /\ remote[k - 1].path = remote[k].path
                  /\ remote[k - 1].pass = remote[k].pass

\* C13, what holds of the code: the partition, the first-seen processing
\* order and the single fetch are as stated; a file is applied exactly once
\* when its fetch returns and not at all when its fetch raises
C13_FetchedOnceAppliedIfFetched ==
    /\ [](InPass => Partitioned /\ FetchedInOrder /\ OncePerPass)
    /\ [][ (InPass /\ file_idx' = file_idx + 1) =>
              \A f \in {fname} : \A p \in {chat_pc} :
                  /\ Fetches(p, f)' = 1
                  /\ Applies(p, f)' = (IF FetchRaised THEN 0 ELSE 1)
         ]_vars

\* the main loop has run to its end over the changes [write b.py,
\* a change of a.py, insert into b.py]: b.py was processed first, with its
\* two changes in arrival order, and both files were fetched and applied
C13_Witness ==
    /\ chat_pc = "main"
    /\ Len(chat_changes) = 3
    /\ file_idx = 2
    /\ file_idx = Len(changes_by_file)
    /\ chat_changes[1].file = "b.py"
    /\ chat_changes[1].action = "write"
    /\ chat_changes[3].action = "insert"
    /\ changes_by_file[1].file_changes = <<chat_changes[1], chat_changes[3]>>
    /\ changes_by_file[2].file_changes = <<chat_changes[2]>>
    /\ store["b.py"] = Present(<<"b", "c">>)
    /\ \A f \in ChatFiles : Fetches("main", f) = 1 /\ Applies("main", f) = 1

=============================================================================
